---- MODULE Spec2Model ----
(***************************************************************************)
(* Chain of Responsibility notebook: the approvers Manager, Director,      *)
(* VicePresident and President, their set_next and process_request         *)
(* methods, and the client code that assembles a chain and submits         *)
(* purchase requests to it.                                                *)
(*                                                                         *)
(* One object of each class exists (as in the client code).  The heap is   *)
(* the function next_approver; a process_request call is synchronous and   *)
(* single-threaded, so a whole call, delegations included, is one action.  *)
(*                                                                         *)
(* The other notebooks (State, Proxy, Flyweight, Singleton, Memento,       *)
(* Command, Observer) are independent programs.  Each has one variable, a  *)
(* record of its objects' fields and of what its calls printed or          *)
(* returned, and its own specification; the variables of the other         *)
(* notebooks stay at their initial values.                                 *)
(***************************************************************************)
EXTENDS Integers, Sequences, FiniteSets, TLC

\* ------------------------------------------------------------------ bounds
\* Depth of the Python call stack at which a delegation raises
\* RecursionError (the interpreter's recursion limit, scaled down; any value
\* above the number of handlers leaves acyclic walks unaffected).
MaxDepth == 5

\* Calls made on a TCPConnection after a set_state by the client.
MaxTcpCalls == 3

\* ProxyImage objects constructed, and lines they may print.
MaxProxies == 3
MaxProxyLines == 6

\* Character objects constructed.
MaxCharacters == 3

\* Logger() calls made, and messages logged.
MaxLoggers == 3
MaxLogLines == 5

\* TextMemento objects created.
MaxMementos == 3

\* Commands held by the EditorInvoker.
MaxCommands == 3

\* Registrations held by the WeatherStation.
MaxObservers == 3

\* Numbers held by the NumberList.
MaxNumbers == 3

\* ------------------------------------------------------- program constants
ManagerLimit == 1000
DirectorLimit == 5000
VicePresidentLimit == 10000

None == "None"

Bounded == {"Manager", "Director", "VicePresident"}
Handlers == Bounded \cup {"President"}

\* Amounts submitted by the clients of the model: the documented ones
\* (800, 3500, 9000, 15000) and the values around each threshold.
Amounts == {0, 800, 1000, 1001, 3500, 5000, 5001, 9000, 10000, 10001, 15000}

VARIABLES
    next_approver,   \* handler -> its _next_approver (President has none)
    set_next_arg,    \* handler -> argument of the latest set_next call on it
    last,            \* record of the latest operation and what it produced
    tcp,             \* State notebook: the TCPConnection and its call log
    proxy,           \* Proxy notebook: the ProxyImage objects and the output
    flyweight,       \* Flyweight notebook: the Character and Font objects
    logger,          \* Singleton notebook: the Logger class and its uses
    memento,         \* Memento notebook: the TextEditor, the History, the client
    command,         \* Command notebook: editor, command objects, invoker
    observer,        \* Observer notebook: the WeatherStation and its displays
    iterator         \* Iterator notebook: the NumberList, a ListIterator, the loop

vars == <<next_approver, set_next_arg, last, tcp, proxy, flyweight, logger, memento, command, observer, iterator>>

chain_vars == <<next_approver, set_next_arg, last>>

\* what the actions of one notebook leave alone
OnlyChain == UNCHANGED <<tcp, proxy, flyweight, logger, memento, command, observer, iterator>>
OnlyProxy == UNCHANGED <<chain_vars, tcp, flyweight, logger, memento, command, observer, iterator>>
OnlyTcp == UNCHANGED <<chain_vars, proxy, flyweight, logger, memento, command, observer, iterator>>
OnlyLogger == UNCHANGED <<chain_vars, tcp, proxy, flyweight, memento, command, observer, iterator>>
OnlyFlyweight == UNCHANGED <<chain_vars, tcp, proxy, logger, memento, command, observer, iterator>>
OnlyCommand == UNCHANGED <<chain_vars, tcp, proxy, flyweight, logger, memento, observer, iterator>>
OnlyMemento == UNCHANGED <<chain_vars, tcp, proxy, flyweight, logger, command, observer, iterator>>
OnlyIterator == UNCHANGED <<chain_vars, tcp, proxy, flyweight, logger, memento, command, observer>>
OnlyObserver == UNCHANGED <<chain_vars, tcp, proxy, flyweight, logger, memento, command, iterator>>

\* ----------------------------------------------------------------- set_next
Manager_set_next(heap, next) == [heap EXCEPT !["Manager"] = next]

\* mutant: set_next that stores nothing (the President's body copied)
Director_set_next_pass(heap, next) == heap

Director_set_next(heap, next) == [heap EXCEPT !["Director"] = next]

VicePresident_set_next(heap, next) == [heap EXCEPT !["VicePresident"] = next]

\* mutant: the President keeps the reference like the other approvers
President_set_next_stores(heap, next) == [heap EXCEPT !["President"] = next]

\* "pass": the President keeps no reference
President_set_next(heap, next) == heap

set_next(self, next, heap) ==
    CASE self = "Manager" -> Manager_set_next(heap, next)
      [] self = "Director" -> Director_set_next(heap, next)
      [] self = "VicePresident" -> VicePresident_set_next(heap, next)
      [] self = "President" -> President_set_next(heap, next)

\* ---------------------------------------------------------- process_request
\* print(f"<title> approves the request for $<amount>")
ApprovalLine(title, amount) == <<title, " approves the request for $", amount>>

\* print("Request cannot be approved.")
RejectLine == <<"Request cannot be approved.">>

\* What a call leaves behind: the heap, the lines printed, the handler that
\* printed each line, the calls made (handler, amount), and whether the call
\* ended in an exception.
Printed(self, line, heap) ==
    [heap |-> heap, out |-> <<line>>, by |-> <<self>>, calls |-> <<>>,
     raised |-> FALSE]

RecursionError(heap) ==
    [heap |-> heap, out |-> <<>>, by |-> <<>>, calls |-> <<>>, raised |-> TRUE]

RECURSIVE process_request(_, _, _, _)

\* mutant: the Manager passes on what exceeds its own limit
Manager_process_request_deducts(heap, amount, depth) ==
    IF amount <= ManagerLimit
    THEN Printed("Manager", ApprovalLine("Manager", amount), heap)
    ELSE IF heap["Manager"] # None
         THEN process_request(heap["Manager"], amount - ManagerLimit, heap,
                              depth + 1)
         ELSE Printed("Manager", RejectLine, heap)

\* mutant: "<" for "<="
Manager_process_request_strict(heap, amount, depth) ==
    IF amount < ManagerLimit
    THEN Printed("Manager", ApprovalLine("Manager", amount), heap)
    ELSE IF heap["Manager"] # None
         THEN process_request(heap["Manager"], amount, heap, depth + 1)
         ELSE Printed("Manager", RejectLine, heap)

\* mutant: no test for a missing successor; None.process_request raises
Manager_process_request_raises(heap, amount, depth) ==
    IF amount <= ManagerLimit
    THEN Printed("Manager", ApprovalLine("Manager", amount), heap)
    ELSE IF heap["Manager"] # None
         THEN process_request(heap["Manager"], amount, heap, depth + 1)
         ELSE RecursionError(heap)

\* mutant: the successor is dropped once the request was delegated
Manager_process_request_forgets(heap, amount, depth) ==
    IF amount <= ManagerLimit
    THEN Printed("Manager", ApprovalLine("Manager", amount), heap)
    ELSE IF heap["Manager"] # None
         THEN LET r == process_request(heap["Manager"], amount, heap,
                                       depth + 1)
              IN  [r EXCEPT !.heap = [@ EXCEPT !["Manager"] = None]]
         ELSE Printed("Manager", RejectLine, heap)

\* mutant: like the previous one, the successor is consumed by a delegation
Manager_process_request_consumes(heap, amount, depth) ==
    Manager_process_request_forgets(heap, amount, depth)

Manager_process_request(heap, amount, depth) ==
    IF amount <= ManagerLimit
    THEN Printed("Manager", ApprovalLine("Manager", amount), heap)
    ELSE IF heap["Manager"] # None
         THEN process_request(heap["Manager"], amount, heap, depth + 1)
         ELSE Printed("Manager", RejectLine, heap)

\* mutant: the Director unlinks itself from a successor it delegated to
Director_process_request_unlinks(heap, amount, depth) ==
    IF amount <= DirectorLimit
    THEN Printed("Director", ApprovalLine("Director", amount), heap)
    ELSE IF heap["Director"] # None
         THEN LET r == process_request(heap["Director"], amount, heap,
                                       depth + 1)
              IN  [r EXCEPT !.heap = [@ EXCEPT !["Director"] = None]]
         ELSE Printed("Director", RejectLine, heap)

\* mutant: the threshold test is missing
Director_process_request_greedy(heap, amount, depth) ==
    Printed("Director", ApprovalLine("Director", amount), heap)

\* mutant: "if" for "elif": the Director approves and delegates as well
Director_process_request_both(heap, amount, depth) ==
    LET own == IF amount <= DirectorLimit
               THEN Printed("Director", ApprovalLine("Director", amount), heap)
               ELSE [Printed("Director", RejectLine, heap)
                        EXCEPT !.out = <<>>, !.by = <<>>]
    IN  IF heap["Director"] # None
        THEN LET r == process_request(heap["Director"], amount, heap,
                                      depth + 1)
             IN  [r EXCEPT !.out = own.out \o @, !.by = own.by \o @]
        ELSE IF amount <= DirectorLimit
             THEN own
             ELSE Printed("Director", RejectLine, heap)

Director_process_request(heap, amount, depth) ==
    IF amount <= DirectorLimit
    THEN Printed("Director", ApprovalLine("Director", amount), heap)
    ELSE IF heap["Director"] # None
         THEN process_request(heap["Director"], amount, heap, depth + 1)
         ELSE Printed("Director", RejectLine, heap)

\* mutant: the delegation branch is missing
VicePresident_process_request_rejects(heap, amount, depth) ==
    IF amount <= VicePresidentLimit
    THEN Printed("VicePresident", ApprovalLine("Vice President", amount), heap)
    ELSE Printed("VicePresident", RejectLine, heap)

\* mutant: the last approver of the chain approves instead of rejecting
VicePresident_process_request_lenient(heap, amount, depth) ==
    IF amount <= VicePresidentLimit
    THEN Printed("VicePresident", ApprovalLine("Vice President", amount), heap)
    ELSE IF heap["VicePresident"] # None
         THEN process_request(heap["VicePresident"], amount, heap, depth + 1)
         ELSE Printed("VicePresident",
                      ApprovalLine("Vice President", amount), heap)

VicePresident_process_request(heap, amount, depth) ==
    IF amount <= VicePresidentLimit
    THEN Printed("VicePresident", ApprovalLine("Vice President", amount), heap)
    ELSE IF heap["VicePresident"] # None
         THEN process_request(heap["VicePresident"], amount, heap, depth + 1)
         ELSE Printed("VicePresident", RejectLine, heap)

President_process_request(heap, amount, depth) ==
    Printed("President", ApprovalLine("President", amount), heap)

\* Dynamic dispatch of self.process_request(amount); a call that would push
\* the stack beyond the recursion limit raises instead of running.
process_request(self, amount, heap, depth) ==
    IF depth > MaxDepth
    THEN RecursionError(heap)
    ELSE LET r == CASE self = "Manager" ->
                         Manager_process_request(heap, amount, depth)
                    [] self = "Director" ->
                         Director_process_request(heap, amount, depth)
                    [] self = "VicePresident" ->
                         VicePresident_process_request(heap, amount, depth)
                    [] self = "President" ->
                         President_process_request(heap, amount, depth)
         IN  [r EXCEPT !.calls = <<<<self, amount>>>> \o @]

\* ============================================================ State notebook
TCPStates == {"TCPClosed", "TCPEstablished", "TCPListening"}

\* TCPConnection.__init__
TCPConnection_init == [state |-> None]

TCPConnection_set_state(conn, state) == [conn EXCEPT !.state = state]

\* What a call on the connection leaves behind: the connection, the line
\* printed, and whether the call ended in an exception.
TcpPrinted(conn, line) == [conn |-> conn, line |-> line, raised |-> FALSE]

\* self._state is None: None has no open / close / listen
TcpAttributeError(conn) == [conn |-> conn, line |-> None, raised |-> TRUE]

TCPClosed_open(conn) ==
    TcpPrinted(TCPConnection_set_state(conn, "TCPEstablished"),
               "Opening TCP connection.")

TCPClosed_close(conn) == TcpPrinted(conn, "TCP connection is already closed.")

TCPClosed_listen(conn) == TcpPrinted(conn, "TCP connection is not open.")

TCPEstablished_open(conn) == TcpPrinted(conn, "TCP connection is already open.")

TCPEstablished_close(conn) ==
    TcpPrinted(TCPConnection_set_state(conn, "TCPClosed"),
               "Closing TCP connection.")

TCPEstablished_listen(conn) == TcpPrinted(conn, "Listening for incoming data.")

TCPListening_open(conn) == TcpPrinted(conn, "TCP connection is already open.")

TCPListening_close(conn) ==
    TcpPrinted(TCPConnection_set_state(conn, "TCPClosed"),
               "Closing TCP connection.")

TCPListening_listen(conn) ==
    TcpPrinted(conn, "TCP connection is already listening.")

TCPConnection_open(conn) ==
    CASE conn.state = "TCPClosed" -> TCPClosed_open(conn)
      [] conn.state = "TCPEstablished" -> TCPEstablished_open(conn)
      [] conn.state = "TCPListening" -> TCPListening_open(conn)
      [] OTHER -> TcpAttributeError(conn)

TCPConnection_close(conn) ==
    CASE conn.state = "TCPClosed" -> TCPClosed_close(conn)
      [] conn.state = "TCPEstablished" -> TCPEstablished_close(conn)
      [] conn.state = "TCPListening" -> TCPListening_close(conn)
      [] OTHER -> TcpAttributeError(conn)

TCPConnection_listen(conn) ==
    CASE conn.state = "TCPClosed" -> TCPClosed_listen(conn)
      [] conn.state = "TCPEstablished" -> TCPEstablished_listen(conn)
      [] conn.state = "TCPListening" -> TCPListening_listen(conn)
      [] OTHER -> TcpAttributeError(conn)

\* tcp.set is the state the client set last, tcp.log the calls made since
TcpInit == tcp = [conn |-> TCPConnection_init, set |-> None, log |-> <<>>]

\* tcp_connection.set_state(TCPClosed(tcp_connection)) and the like
TcpSetState(state) ==
    /\ tcp' = [conn |-> TCPConnection_set_state(tcp.conn, state),
               set |-> state, log |-> <<>>]
    /\ OnlyTcp

TcpCalled(call, r) ==
    /\ Len(tcp.log) < MaxTcpCalls
    /\ tcp' = [tcp EXCEPT !.conn = r.conn,
                          !.log = Append(@, [call |-> call, line |-> r.line,
                                             raised |-> r.raised])]
    /\ OnlyTcp

TcpOpen == TcpCalled("open", TCPConnection_open(tcp.conn))

TcpClose == TcpCalled("close", TCPConnection_close(tcp.conn))

TcpListen == TcpCalled("listen", TCPConnection_listen(tcp.conn))

TcpNext ==
    \/ \E state \in TCPStates : TcpSetState(state)
    \/ TcpOpen
    \/ TcpClose
    \/ TcpListen

\* ============================================================ Proxy notebook
Filenames == {"image1.jpg", "image2.jpg"}

\* print(f"Loading image from disk: {self._filename}")
RealImage_load_image_from_disk(self) ==
    <<"Loading image from disk: ", self.filename>>

\* RealImage(filename): the new object and what its construction printed
RealImage_init(filename) ==
    LET self == [filename |-> filename]
    IN  [image |-> self, out |-> <<RealImage_load_image_from_disk(self)>>]

\* print(f"Displaying image: {self._filename}")
RealImage_display(self) == <<"Displaying image: ", self.filename>>

\* _real_image is a sequence: <<>> for None, <<image>> for a RealImage
ProxyImage_init(filename) == [filename |-> filename, real_image |-> <<>>]

\* mutant: the "is None" test is missing, every display loads the image
ProxyImage_display_reloads(self) ==
    LET made == RealImage_init(self.filename)
    IN  [self |-> [self EXCEPT !.real_image = <<made.image>>],
         out |-> made.out \o <<RealImage_display(made.image)>>]

ProxyImage_display(self) ==
    LET made == IF self.real_image = <<>>
                THEN RealImage_init(self.filename)
                ELSE [image |-> self.real_image[1], out |-> <<>>]
    IN  [self |-> [self EXCEPT !.real_image = <<made.image>>],
         out |-> made.out \o <<RealImage_display(made.image)>>]

\* proxy.images are the ProxyImage objects in order of construction,
\* proxy.log the lines printed, each with the proxy whose call printed it
ProxyInit == proxy = [images |-> <<>>, log |-> <<>>]

\* image = ProxyImage(filename)
ProxyCreate(filename) ==
    /\ Len(proxy.images) < MaxProxies
    /\ proxy' = [proxy EXCEPT !.images = Append(@, ProxyImage_init(filename))]
    /\ OnlyProxy

\* image.display() on the i-th proxy
ProxyDisplay(i) ==
    LET r == ProxyImage_display(proxy.images[i])
    IN  /\ Len(proxy.log) + 2 <= MaxProxyLines
        /\ proxy' = [images |-> [proxy.images EXCEPT ![i] = r.self],
                     log |-> proxy.log \o
                             [k \in DOMAIN r.out |->
                                [proxy |-> i, line |-> r.out[k]]]]
        /\ OnlyProxy

ProxyNext ==
    \/ \E filename \in Filenames : ProxyCreate(filename)
    \/ \E i \in DOMAIN proxy.images : ProxyDisplay(i)

\* ======================================================== Flyweight notebook
FontNames == {"Arial", "Times New Roman", "Calibri"}

Letters == {"A", "B"}

\* Font(font_name)
Font_init(font_name) == [font_name |-> font_name]

\* CharacterFlyweightFactory(): self._flyweights = {}
CharacterFlyweightFactory_init == [flyweights |-> <<>>]

\* get_flyweight on a factory; fonts are the Font objects created so far, a
\* Font object is identified by its position in fonts.  Returns the
\* factory, the Font handed out and the Font objects existing afterwards.
CharacterFlyweightFactory_get_flyweight(self, font_name, fonts) ==
    IF font_name \notin DOMAIN self.flyweights
    THEN LET made == Append(fonts, Font_init(font_name))
             filled == [n \in DOMAIN self.flyweights \cup {font_name} |->
                          IF n = font_name THEN Len(made)
                          ELSE self.flyweights[n]]
         IN  [factory |-> [self EXCEPT !.flyweights = filled],
              font |-> filled[font_name], fonts |-> made]
    ELSE [factory |-> self, font |-> self.flyweights[font_name],
          fonts |-> fonts]

\* Character(character, font_name): asks a new CharacterFlyweightFactory()
Character_init(character, font_name, fonts) ==
    LET r == CharacterFlyweightFactory_get_flyweight(
                 CharacterFlyweightFactory_init, font_name, fonts)
    IN  [self |-> [character |-> character, font |-> r.font],
         fonts |-> r.fonts]

FlyweightInit == flyweight = [characters |-> <<>>, fonts |-> <<>>]

\* Character("A", "Arial") and the like in the client's list
FlyweightCharacter(character, font_name) ==
    LET r == Character_init(character, font_name, flyweight.fonts)
    IN  /\ Len(flyweight.characters) < MaxCharacters
        /\ flyweight' = [characters |-> Append(flyweight.characters, r.self),
                         fonts |-> r.fonts]
        /\ OnlyFlyweight

FlyweightNext ==
    \E character \in Letters, font_name \in FontNames :
        FlyweightCharacter(character, font_name)

\* ======================================================== Singleton notebook
\* class Logger: _instance = None.  The attribute is a sequence: <<>> for
\* None, <<n>> for the n-th Logger object created.
Logger_class == [instance |-> <<>>]

\* "not cls._instance": None is falsy, a Logger object is truthy
LoggerFalsy(instance) == instance = <<>>

\* mutant: the new object is returned but not kept in cls._instance
Logger_new_unkept(cls, created) ==
    IF LoggerFalsy(cls.instance)
    THEN [cls |-> cls, created |-> created + 1, ret |-> created + 1]
    ELSE [cls |-> cls, created |-> created, ret |-> cls.instance[1]]

\* Logger.__new__(cls); created counts the objects made by
\* super().__new__.  Returns the class, the count and the object returned.
Logger_new(cls, created) ==
    IF LoggerFalsy(cls.instance)
    THEN [cls |-> [cls EXCEPT !.instance = <<created + 1>>],
          created |-> created + 1, ret |-> created + 1]
    ELSE [cls |-> cls, created |-> created, ret |-> cls.instance[1]]

\* Logger.log(message): print(message)
Logger_log(self, message) == message

LogMessages == {"This is a log message from logger1.",
                "This is a log message from logger2."}

\* logger.refs are the results of the Logger() calls, logger.out the output
LoggerInit ==
    logger = [cls |-> Logger_class, created |-> 0, refs |-> <<>>,
              out |-> <<>>]

\* logger1 = Logger()
LoggerConstruct ==
    LET r == Logger_new(logger.cls, logger.created)
    IN  /\ Len(logger.refs) < MaxLoggers
        /\ logger' = [logger EXCEPT !.cls = r.cls, !.created = r.created,
                                    !.refs = Append(@, r.ret)]
        /\ OnlyLogger

\* logger1.log(message) on the result of the i-th Logger() call
LoggerLog(i, message) ==
    /\ Len(logger.out) < MaxLogLines
    /\ logger' = [logger EXCEPT
                    !.out = Append(@, Logger_log(logger.refs[i], message))]
    /\ OnlyLogger

LoggerNext ==
    \/ LoggerConstruct
    \/ \E i \in DOMAIN logger.refs, message \in LogMessages :
          LoggerLog(i, message)

\* ========================================================== Memento notebook
Contents == {"This is the initial text.", "Updated text.", "New text added."}

\* TextMemento(content); id is the identity of the new object
TextMemento_init(id, content) == [id |-> id, content |-> content]

TextMemento_get_content(self) == self.content

\* TextEditor.__init__
TextEditor_init == [content |-> ""]

TextEditor_get_content(self) == self.content

TextEditor_set_content(self, content) == [self EXCEPT !.content = content]

TextEditor_create_memento(self, id) == TextMemento_init(id, self.content)

TextEditor_restore_from_memento(self, m) ==
    [self EXCEPT !.content = TextMemento_get_content(m)]

\* History.__init__
History_init == [mementos |-> <<>>]

History_save(self, m) == [self EXCEPT !.mementos = Append(@, m)]

\* mutant: pop(0), the oldest memento is returned
History_undo_oldest(self) ==
    IF self.mementos # <<>>
    THEN [self |-> [self EXCEPT !.mementos = Tail(@)],
          ret |-> <<Head(self.mementos)>>]
    ELSE [self |-> self, ret |-> <<>>]

\* History.undo: the history afterwards and the value returned, <<>> for
\* None and <<m>> for the memento m
History_undo(self) ==
    IF self.mementos # <<>>
    THEN [self |-> [self EXCEPT !.mementos =
                       SubSeq(@, 1, Len(self.mementos) - 1)],
          ret |-> <<self.mementos[Len(self.mementos)]>>]
    ELSE [self |-> self, ret |-> <<>>]

\* memento.created counts the TextMemento objects, memento.ret is what the
\* latest history.undo() returned, memento.op the latest call, and
\* memento.pending the ids of the mementos saved and not yet returned.
MementoInit ==
    memento = [editor |-> TextEditor_init, history |-> History_init,
               created |-> 0, ret |-> <<>>, op |-> "init", pending |-> {}]

\* text_editor.set_content(content)
MementoSetContent(content) ==
    /\ memento' = [memento EXCEPT
                     !.editor = TextEditor_set_content(@, content),
                     !.op = "set_content"]
    /\ OnlyMemento

\* history.save(text_editor.create_memento())
MementoSave ==
    LET m == TextEditor_create_memento(memento.editor, memento.created + 1)
    IN  /\ memento.created < MaxMementos
        /\ memento' = [memento EXCEPT
                         !.history = History_save(@, m),
                         !.created = @ + 1,
                         !.op = "save",
                         !.pending = @ \cup {m.id}]
        /\ OnlyMemento

\* memento = history.undo(); if memento: restore_from_memento(memento)
MementoUndo ==
    LET r == History_undo(memento.history)
    IN  /\ memento' = [memento EXCEPT
                         !.history = r.self,
                         !.ret = r.ret,
                         !.editor = IF r.ret # <<>>
                                    THEN TextEditor_restore_from_memento(
                                             @, r.ret[1])
                                    ELSE @,
                         !.op = "undo",
                         !.pending = @ \ {r.ret[k].id : k \in DOMAIN r.ret}]
        /\ OnlyMemento

MementoNext ==
    \/ \E content \in Contents : MementoSetContent(content)
    \/ MementoSave
    \/ MementoUndo

\* ========================================================== Command notebook
\* The command objects of the client code
CommandObjects == {"cut_command", "copy_command", "paste_command"}

\* Receiver TextEditor.__init__
CommandEditor_init == [content |-> ""]

CommandEditor_get_selection(self) == self.content

CommandEditor_cut(self) == [self EXCEPT !.content = ""]

\* "pass"
CommandEditor_copy(self) == self

CommandEditor_paste(self) == [self EXCEPT !.content = "Pasted text"]

CommandEditor_restore(self, text) == [self EXCEPT !.content = text]

\* The objects of the notebook: the editor, the _backup of each command
\* object (<<>> for None, <<text>> for a text; copy_command has none) and
\* the invoker's _commands.
CommandObjects_init ==
    [editor |-> CommandEditor_init,
     backup |-> [c \in {"cut_command", "paste_command"} |-> <<>>],
     commands |-> <<>>]

BackupText(b) == IF b = <<>> THEN None ELSE b[1]

CutCommand_execute(st) ==
    [st EXCEPT !.backup["cut_command"] =
                  <<CommandEditor_get_selection(st.editor)>>,
               !.editor = CommandEditor_cut(@)]

CutCommand_undo(st) ==
    [st EXCEPT !.editor = CommandEditor_restore(
                              @, BackupText(st.backup["cut_command"]))]

CopyCommand_execute(st) == [st EXCEPT !.editor = CommandEditor_copy(@)]

\* "pass"
CopyCommand_undo(st) == st

PasteCommand_execute(st) ==
    [st EXCEPT !.backup["paste_command"] =
                  <<CommandEditor_get_selection(st.editor)>>,
               !.editor = CommandEditor_paste(@)]

PasteCommand_undo(st) ==
    [st EXCEPT !.editor = CommandEditor_restore(
                              @, BackupText(st.backup["paste_command"]))]

\* command.execute() and command.undo(), dispatched on the object
Command_execute(st, c) ==
    CASE c = "cut_command" -> CutCommand_execute(st)
      [] c = "copy_command" -> CopyCommand_execute(st)
      [] c = "paste_command" -> PasteCommand_execute(st)

Command_undo(st, c) ==
    CASE c = "cut_command" -> CutCommand_undo(st)
      [] c = "copy_command" -> CopyCommand_undo(st)
      [] c = "paste_command" -> PasteCommand_undo(st)

EditorInvoker_execute(st, c) ==
    Command_execute([st EXCEPT !.commands = Append(@, c)], c)

EditorInvoker_undo(st) ==
    IF st.commands # <<>>
    THEN Command_undo(
             [st EXCEPT !.commands = SubSeq(@, 1, Len(st.commands) - 1)],
             st.commands[Len(st.commands)])
    ELSE st

\* command.run follows the latest run of execute calls and the undo calls
\* after it: the content before its first execute and the two counts.
NoRun == [start |-> "", execs |-> 0, undos |-> 0]

CommandInit == command = [st |-> CommandObjects_init, run |-> NoRun]

\* invoker.execute(c)
CommandExecute(c) ==
    /\ Len(command.st.commands) < MaxCommands
    /\ command' =
          [st |-> EditorInvoker_execute(command.st, c),
           run |-> IF command.run.execs = 0 \/ command.run.undos > 0
                   THEN [start |-> command.st.editor.content, execs |-> 1,
                         undos |-> 0]
                   ELSE [command.run EXCEPT !.execs = @ + 1]]
    /\ OnlyCommand

\* invoker.undo()
CommandUndo ==
    /\ command' =
          [st |-> EditorInvoker_undo(command.st),
           run |-> IF command.run.undos < command.run.execs
                   THEN [command.run EXCEPT !.undos = @ + 1]
                   ELSE NoRun]
    /\ OnlyCommand

CommandNext ==
    \/ \E c \in CommandObjects : CommandExecute(c)
    \/ CommandUndo

\* ========================================================= Observer notebook
\* The Display objects of the client code, known by their names
Displays == {"Display 1", "Display 2"}

Temperatures == {25, 30}

\* WeatherStation.__init__
WeatherStation_init == [temperature |-> 0, observers |-> <<>>]

WeatherStation_add_observer(self, o) ==
    [self EXCEPT !.observers = Append(@, o)]

\* list.remove(o): the first occurrence goes, ValueError when there is none
WeatherStation_remove_observer(self, o) ==
    IF \E k \in DOMAIN self.observers : self.observers[k] = o
    THEN LET first == CHOOSE k \in DOMAIN self.observers :
                         /\ self.observers[k] = o
                         /\ \A j \in 1..(k - 1) : self.observers[j] # o
         IN  [self |-> [self EXCEPT !.observers =
                           SubSeq(@, 1, first - 1) \o
                           SubSeq(@, first + 1, Len(self.observers))],
              raised |-> FALSE]
    ELSE [self |-> self, raised |-> TRUE]

\* print(f"{self._name} Display: Temperature is now {temperature}°C")
Display_update(name, temperature) ==
    [observer |-> name,
     line |-> <<name, " Display: Temperature is now ", temperature, "°C">>]

\* the updates made, in the order of self._observers
WeatherStation_notify_observers(self) ==
    [k \in DOMAIN self.observers |->
        Display_update(self.observers[k], self.temperature)]

\* mutant: the observers are notified before the new value is stored
WeatherStation_set_temperature_stale(self, temperature) ==
    [self |-> [self EXCEPT !.temperature = temperature],
     out |-> WeatherStation_notify_observers(self)]

WeatherStation_set_temperature(self, temperature) ==
    LET stored == [self EXCEPT !.temperature = temperature]
    IN  [self |-> stored, out |-> WeatherStation_notify_observers(stored)]

\* observer.out is what the latest call printed, observer.op the latest
\* call, observer.removed the displays removed and not added again since.
ObserverInit ==
    observer = [station |-> WeatherStation_init, out |-> <<>>,
                op |-> [name |-> "init"], removed |-> {}]

\* weather_station.add_observer(o)
ObserverAdd(o) ==
    /\ Len(observer.station.observers) < MaxObservers
    /\ observer' = [station |-> WeatherStation_add_observer(
                                    observer.station, o),
                    out |-> <<>>,
                    op |-> [name |-> "add_observer", arg |-> o],
                    removed |-> observer.removed \ {o}]
    /\ OnlyObserver

\* weather_station.remove_observer(o)
ObserverRemove(o) ==
    LET r == WeatherStation_remove_observer(observer.station, o)
    IN  /\ observer' = [station |-> r.self,
                        out |-> <<>>,
                        op |-> [name |-> "remove_observer", arg |-> o,
                                raised |-> r.raised],
                        removed |-> IF r.raised THEN observer.removed
                                    ELSE observer.removed \cup {o}]
        /\ OnlyObserver

\* weather_station.set_temperature(t)
ObserverSetTemperature(t) ==
    LET r == WeatherStation_set_temperature(observer.station, t)
    IN  /\ observer' = [observer EXCEPT
                          !.station = r.self,
                          !.out = r.out,
                          !.op = [name |-> "set_temperature", arg |-> t]]
        /\ OnlyObserver

ObserverNext ==
    \/ \E o \in Displays : ObserverAdd(o)
    \/ \E o \in Displays : ObserverRemove(o)
    \/ \E t \in Temperatures : ObserverSetTemperature(t)

\* ========================================================= Iterator notebook
Numbers == {1, 2, 3}

\* NumberList.__init__
NumberList_init == [numbers |-> <<>>]

NumberList_add(self, number) == [self EXCEPT !.numbers = Append(@, number)]

\* mutant: the traversal starts at the second element
ListIterator_init_second == [index |-> 1]

\* ListIterator(collection): _collection is the list object itself, not a
\* copy, so the methods below read the list as it is when they are called
ListIterator_init == [index |-> 0]

NumberList_create_iterator(self) == ListIterator_init

ListIterator_has_next(self, collection) == self.index < Len(collection)

\* the iterator afterwards and the value returned (<<v>>), or StopIteration
ListIterator_next(self, collection) ==
    IF ListIterator_has_next(self, collection)
    THEN [self |-> [self EXCEPT !.index = @ + 1],
          ret |-> <<collection[self.index + 1]>>, raised |-> FALSE]
    ELSE [self |-> self, ret |-> <<>>, raised |-> TRUE]

\* iterator.it is the client's iterator (<<>> before create_iterator),
\* iterator.returned what its next() calls returned, iterator.finished
\* whether the while loop has ended, iterator.modified whether add was
\* called since the iterator was created.
IteratorInit ==
    iterator = [list |-> NumberList_init, it |-> <<>>, returned |-> <<>>,
                finished |-> FALSE, modified |-> FALSE]

\* number_list.add(number)
IteratorAdd(number) ==
    /\ Len(iterator.list.numbers) < MaxNumbers
    /\ iterator' = [iterator EXCEPT
                      !.list = NumberList_add(@, number),
                      !.modified = iterator.it # <<>>]
    /\ OnlyIterator

\* iterator = number_list.create_iterator()
IteratorCreate ==
    /\ iterator' = [iterator EXCEPT
                      !.it = <<NumberList_create_iterator(iterator.list)>>,
                      !.returned = <<>>,
                      !.finished = FALSE,
                      !.modified = FALSE]
    /\ OnlyIterator

\* one turn of "while iterator.has_next(): print(iterator.next())"
IteratorLoop ==
    /\ iterator.it # <<>>
    /\ ~iterator.finished
    /\ IF ListIterator_has_next(iterator.it[1], iterator.list.numbers)
       THEN LET r == ListIterator_next(iterator.it[1], iterator.list.numbers)
            IN  iterator' = [iterator EXCEPT
                               !.it = <<r.self>>,
                               !.returned = @ \o r.ret]
       ELSE iterator' = [iterator EXCEPT !.finished = TRUE]
    /\ OnlyIterator

IteratorNext ==
    \/ \E number \in Numbers : IteratorAdd(number)
    \/ IteratorCreate
    \/ IteratorLoop

\* ------------------------------------------------------------------ actions
NoSuccessors == [h \in Handlers |-> None]

Init ==
    /\ next_approver = NoSuccessors
    /\ set_next_arg = NoSuccessors
    /\ last = [op |-> "init"]
    /\ TcpInit
    /\ ProxyInit
    /\ FlyweightInit
    /\ LoggerInit
    /\ MementoInit
    /\ CommandInit
    /\ ObserverInit
    /\ IteratorInit

\* self.set_next(next) called by a client
SetNext(self, next) ==
    /\ next_approver' = set_next(self, next, next_approver)
    /\ set_next_arg' = [set_next_arg EXCEPT ![self] = next]
    /\ last' = [op |-> "set_next", self |-> self, arg |-> next,
                old |-> next_approver[self]]
    /\ OnlyChain

\* head.process_request(amount) called by a client
ProcessRequest(head, amount) ==
    LET r == process_request(head, amount, next_approver, 1)
    IN  /\ next_approver' = r.heap
        /\ last' = [op |-> "process_request", head |-> head,
                    amount |-> amount, out |-> r.out, by |-> r.by,
                    calls |-> r.calls, raised |-> r.raised,
                    repeat |-> /\ last.op = "process_request"
                               /\ last.head = head
                               /\ last.amount = amount]
        /\ UNCHANGED set_next_arg
        /\ OnlyChain

\* The client's assembly: fresh handlers, then order[i].set_next(order[i+1])
\* for each handler but the last.
RECURSIVE AssembleFrom(_, _, _)
AssembleFrom(order, i, heap) ==
    IF i >= Len(order)
    THEN heap
    ELSE AssembleFrom(order, i + 1, set_next(order[i], order[i + 1], heap))

Orders ==
    {o \in UNION {[1..n -> Handlers] : n \in 1..Cardinality(Handlers)} :
        \A i, j \in DOMAIN o : i # j => o[i] # o[j]}

Assemble(order) ==
    /\ next_approver' = AssembleFrom(order, 1, NoSuccessors)
    /\ set_next_arg' = [h \in Handlers |->
                          IF \E i \in 1..(Len(order) - 1) : order[i] = h
                          THEN order[(CHOOSE i \in 1..(Len(order) - 1) :
                                         order[i] = h) + 1]
                          ELSE None]
    /\ last' = [op |-> "assemble", order |-> order]
    /\ OnlyChain

Next ==
    \/ \E self \in Handlers, next \in Handlers \cup {None} : SetNext(self, next)
    \/ \E head \in Handlers, amount \in Amounts : ProcessRequest(head, amount)
    \/ \E order \in Orders : Assemble(order)

Spec == Init /\ [][Next]_vars

SpecTcp == Init /\ [][TcpNext]_vars

SpecProxy == Init /\ [][ProxyNext]_vars

SpecFlyweight == Init /\ [][FlyweightNext]_vars

SpecLogger == Init /\ [][LoggerNext]_vars

SpecMemento == Init /\ [][MementoNext]_vars

SpecCommand == Init /\ [][CommandNext]_vars

SpecObserver == Init /\ [][ObserverNext]_vars

SpecIterator == Init /\ [][IteratorNext]_vars

TypeOK ==
    /\ next_approver \in [Handlers -> Handlers \cup {None}]
    /\ set_next_arg \in [Handlers -> Handlers \cup {None}]
    /\ last.op \in {"init", "set_next", "process_request", "assemble"}

\* ------------------------------------------------- vocabulary of the claims
Requested == last.op = "process_request"

Limit(h) ==
    CASE h = "Manager" -> ManagerLimit
      [] h = "Director" -> DirectorLimit
      [] h = "VicePresident" -> VicePresidentLimit

\* The handlers met by following successor references from h, up to the
\* first handler without successor or the first handler met twice.
RECURSIVE WalkFrom(_, _, _)
WalkFrom(h, heap, seen) ==
    IF h = None \/ h \in seen
    THEN <<>>
    ELSE <<h>> \o WalkFrom(heap[h], heap, seen \cup {h})

Walk(h) == WalkFrom(h, next_approver, {})

Range(s) == {s[i] : i \in DOMAIN s}

\* The successor references from h form a simple sequence: the walk ends at
\* a handler without successor, not at a handler already met.
IsChain(h) == next_approver[Walk(h)[Len(Walk(h))]] = None

LastOf(h) == Walk(h)[Len(Walk(h))]

ApprovedBy(h, title) ==
    /\ ~last.raised
    /\ last.out = <<ApprovalLine(title, last.amount)>>
    /\ last.by = <<h>>

Rejected ==
    /\ ~last.raised
    /\ last.out = <<RejectLine>>

DocumentedChain ==
    /\ next_approver["Manager"] = "Director"
    /\ next_approver["Director"] = "VicePresident"
    /\ next_approver["VicePresident"] = "President"
    /\ next_approver["President"] = None

\* ------------------------------------------------------------------- claims
\* C1: on the chain Manager -> Director -> VicePresident -> President the
\* amounts 800, 3500, 9000 and 15000 submitted to the Manager are approved
\* by the Manager, the Director, the Vice President and the President.
C1_DocumentedScenario ==
    (Requested /\ DocumentedChain /\ last.head = "Manager") =>
        /\ last.amount = 800 => ApprovedBy("Manager", "Manager")
        /\ last.amount = 3500 => ApprovedBy("Director", "Director")
        /\ last.amount = 9000 => ApprovedBy("VicePresident", "Vice President")
        /\ last.amount = 15000 => ApprovedBy("President", "President")

C1_Witness ==
    /\ Requested /\ DocumentedChain /\ last.head = "Manager"
    /\ last.amount = 15000
    /\ last.by = <<"President">>
    /\ Len(last.calls) = 4

\* C2: on the chain Manager -> Director -> VicePresident an amount submitted
\* to the Manager is approved by the Manager when amount <= 1000, by the
\* Director when 1000 < amount <= 5000 and by the Vice President when
\* 5000 < amount <= 10000 (upper bounds inclusive).
C2_ThresholdBands ==
    (/\ Requested /\ last.head = "Manager"
     /\ next_approver["Manager"] = "Director"
     /\ next_approver["Director"] = "VicePresident") =>
        /\ last.amount <= 1000 => ApprovedBy("Manager", "Manager")
        /\ (1000 < last.amount /\ last.amount <= 5000) =>
               ApprovedBy("Director", "Director")
        /\ (5000 < last.amount /\ last.amount <= 10000) =>
               ApprovedBy("VicePresident", "Vice President")

C2_Witness ==
    /\ Requested /\ last.head = "Manager"
    /\ next_approver["Manager"] = "Director"
    /\ next_approver["Director"] = "VicePresident"
    /\ last.amount = 5000
    /\ last.by = <<"Director">>

\* C3: an amount greater than 10000 submitted to the head of a chain that
\* ends in the President is approved by the President and by nobody else.
C3_TerminalApproves ==
    (/\ Requested /\ IsChain(last.head)
     /\ LastOf(last.head) = "President"
     /\ last.amount > VicePresidentLimit) =>
        ApprovedBy("President", "President")

C3_Witness ==
    /\ Requested /\ IsChain(last.head)
    /\ LastOf(last.head) = "President"
    /\ last.amount > VicePresidentLimit
    /\ Len(Walk(last.head)) = 4
    /\ last.by = <<"President">>

\* C4: on a chain of bounded handlers only, whose last handler has no
\* successor, an amount above every handler's threshold is rejected with
\* "Request cannot be approved.", nobody approves and nothing is raised.
C4_RejectedWithoutTerminal ==
    (/\ Requested /\ IsChain(last.head)
     /\ Range(Walk(last.head)) \subseteq Bounded
     /\ \A h \in Range(Walk(last.head)) : last.amount > Limit(h)) =>
        /\ Rejected
        /\ last.by = <<LastOf(last.head)>>

C4_Witness ==
    /\ Requested /\ IsChain(last.head)
    /\ Walk(last.head) = <<"Manager", "Director", "VicePresident">>
    /\ last.amount = 10001
    /\ last.out = <<RejectLine>>

\* C5: a process_request call on the head of a chain produces exactly one
\* signal, an approval or a rejection, printed by exactly one handler of
\* the chain.
C5_OneSignal ==
    (Requested /\ IsChain(last.head)) =>
        /\ ~last.raised
        /\ Len(last.out) = 1
        /\ Len(last.by) = 1
        /\ last.by[1] \in Range(Walk(last.head))
        /\ \/ last.out[1] = RejectLine
           \/ \E title \in {"Manager", "Director", "Vice President",
                              "President"} :
                 last.out[1] = ApprovalLine(title, last.amount)

C5_Witness ==
    /\ Requested /\ IsChain(last.head)
    /\ Len(Walk(last.head)) = 3
    /\ Len(last.calls) = 3
    /\ Len(last.out) = 1

\* C6 (as stated): every process_request call ends approved or rejected,
\* for every amount and every wiring set_next can produce.
C6_Original ==
    Requested =>
        /\ ~last.raised
        /\ Len(last.out) = 1

\* The walk from h reaches a handler without successor or a handler that
\* approves the amount before it meets a handler twice.
Terminating(h, amount) ==
    \/ IsChain(h)
    \/ \E b \in Range(Walk(h)) \cap Bounded : amount <= Limit(b)

\* C6 (amended): a process_request call ends with one approval or one
\* rejection, after at most one call per handler of the walk, exactly when
\* the successor walk from the entry handler reaches an approving handler
\* or a handler without successor before it meets a handler twice; on the
\* other wirings it recurses until RecursionError, with no outcome.
C6_TerminatesUnlessCyclic ==
    Requested =>
        /\ last.raised <=> ~Terminating(last.head, last.amount)
        /\ ~last.raised =>
              /\ Len(last.out) = 1
              /\ Len(last.calls) <= Len(Walk(last.head))
              /\ \A i \in DOMAIN last.calls :
                    last.calls[i] = <<Walk(last.head)[i], last.amount>>
        /\ last.raised => last.out = <<>>

C6_Witness ==
    /\ Requested
    /\ ~IsChain(last.head)
    /\ ~last.raised
    /\ Len(last.calls) = 2
    /\ Len(last.out) = 1

\* C7 (as stated): once a handler has a successor, no later operation on
\* the handler changes it.
C7_Original ==
    [][last'.op # "assemble" =>
         \A h \in Handlers :
            next_approver[h] # None => next_approver'[h] = next_approver[h]]_vars

\* C7 (amended): a handler's successor changes only by a set_next call on
\* that handler (or when the handlers are constructed anew), every set_next
\* call on a Manager, Director or VicePresident replaces the successor by
\* its argument, also when one was set before, and process_request changes
\* no successor.
C7_OnlySetNextChanges ==
    [][/\ \A h \in Handlers :
            next_approver'[h] # next_approver[h] =>
               \/ last'.op = "assemble"
               \/ /\ last'.op = "set_next"
                  /\ last'.self = h
                  /\ last'.arg = next_approver'[h]
       /\ (last'.op = "set_next" /\ last'.self \in Bounded) =>
            next_approver'[last'.self] = last'.arg]_vars

C7_Witness ==
    /\ last.op = "set_next"
    /\ last.old = "Director"
    /\ last.arg = "VicePresident"
    /\ next_approver[last.self] = "VicePresident"

AssembledInOrder ==
    /\ \A i \in 1..(Len(last.order) - 1) :
          next_approver[last.order[i]] = last.order[i + 1]
    /\ Walk(last.order[1]) = last.order
    /\ IsChain(last.order[1])
    /\ {h \in Range(last.order) : next_approver[h] = None} =
          {last.order[Len(last.order)]}

\* C8 (as stated): after assembly over any supplied order each handler's
\* successor is the next handler of the order, the references form a simple
\* sequence without cycle and exactly the last handler has no successor.
C8_Original == last.op = "assemble" => AssembledInOrder

PresidentOnlyLast(order) ==
    \A i \in 1..(Len(order) - 1) : order[i] # "President"

\* C8 (amended): the same, for every order of distinct, newly constructed
\* handlers in which the President, if present, is the last one.
C8_AssembledChain ==
    (last.op = "assemble" /\ PresidentOnlyLast(last.order)) =>
        AssembledInOrder

C8_Witness ==
    /\ last.op = "assemble"
    /\ last.order = <<"Manager", "Director", "VicePresident", "President">>
    /\ DocumentedChain

\* C9: the President never has a successor, whatever was passed to its
\* set_next, approves every amount itself and invokes no other handler.
C9_PresidentTerminal ==
    /\ next_approver["President"] = None
    /\ (last.op = "set_next" /\ last.self = "President") =>
          last.old = None
    /\ (Requested /\ \E i \in DOMAIN last.calls :
                        last.calls[i][1] = "President") =>
          /\ ApprovedBy("President", "President")
          /\ last.calls[Len(last.calls)] = <<"President", last.amount>>
          /\ \A i \in 1..(Len(last.calls) - 1) :
                last.calls[i][1] # "President"

C9_Witness ==
    /\ Requested
    /\ set_next_arg["President"] = "Manager"
    /\ last.head = "President"
    /\ last.calls = <<<<"President", last.amount>>>>
    /\ last.by = <<"President">>

\* C10: a request repeated with the same entry handler and the same amount
\* on the same chain has the same outcome and the same approver as before.
C10_SameOutcomeTwice ==
    [][(/\ last.op = "process_request"
        /\ last'.op = "process_request"
        /\ last'.head = last.head
        /\ last'.amount = last.amount) =>
           /\ last'.out = last.out
           /\ last'.by = last.by
           /\ last'.raised = last.raised
           /\ last'.calls = last.calls]_vars

C10_Witness ==
    /\ Requested
    /\ last.repeat
    /\ Len(last.calls) = 3
    /\ last.by = <<"VicePresident">>

\* C11: process_request leaves every handler unchanged: whatever the amount
\* and the outcome (approval, delegation, rejection, also RecursionError),
\* every handler's successor is the same after the call as before it.
C11_RequestKeepsSuccessors ==
    [][last'.op = "process_request" => next_approver' = next_approver]_vars

C11_Witness ==
    /\ Requested
    /\ last.head = "Manager"
    /\ last.calls = <<<<"Manager", 15000>>, <<"Director", 15000>>,
                      <<"VicePresident", 15000>>>>
    /\ Rejected
    /\ next_approver["Manager"] = "Director"
    /\ next_approver["Director"] = "VicePresident"

\* C12 (as documented in the client code): after set_state(TCPClosed) the
\* calls open(), listen(), close() print "Opening TCP connection.",
\* "TCP connection is not open." and "TCP connection is already closed.".
C12_DocumentedOutputs ==
    (/\ tcp.set = "TCPClosed"
     /\ Len(tcp.log) = 3
     /\ tcp.log[1].call = "open"
     /\ tcp.log[2].call = "listen"
     /\ tcp.log[3].call = "close") =>
        /\ tcp.log[1].line = "Opening TCP connection."
        /\ tcp.log[2].line = "TCP connection is not open."
        /\ tcp.log[3].line = "TCP connection is already closed."
\* Positions of the log at which proxy i printed a line starting with text
ProxyLines(i, text) ==
    {k \in DOMAIN proxy.log :
        proxy.log[k].proxy = i /\ proxy.log[k].line[1] = text}

ProxyLoads(i) == ProxyLines(i, "Loading image from disk: ")

ProxyDisplays(i) == ProxyLines(i, "Displaying image: ")

\* C13: constructing a ProxyImage creates and loads no RealImage; the image
\* is loaded exactly once, at the first display(), before the first display
\* output, and no later display() loads it again.
C13_LoadedOnceOnFirstDisplay ==
    \A i \in DOMAIN proxy.images :
        /\ ProxyDisplays(i) = {} =>
              /\ ProxyLoads(i) = {}
              /\ proxy.images[i].real_image = <<>>
        /\ ProxyDisplays(i) # {} =>
              /\ Cardinality(ProxyLoads(i)) = 1
              /\ \A d \in ProxyDisplays(i) :
                    (\A e \in ProxyDisplays(i) : d <= e) =>
                        ProxyLoads(i) = {d - 1}
              /\ \A k \in ProxyLoads(i) :
                    proxy.log[k].line[2] = proxy.images[i].filename
              /\ proxy.images[i].real_image =
                    <<[filename |-> proxy.images[i].filename]>>

C13_Witness ==
    /\ Len(proxy.images) = 2
    /\ ProxyDisplays(1) = {}
    /\ Cardinality(ProxyDisplays(2)) = 3
    /\ Cardinality(ProxyLoads(2)) = 1
FontNameOf(i) == flyweight.fonts[flyweight.characters[i].font].font_name

\* C14 (as documented): two Characters created with the same font name
\* share one Font object, so the number of Font objects created equals the
\* number of distinct font names used.
C14_FontsShared ==
    /\ \A i, j \in DOMAIN flyweight.characters :
          FontNameOf(i) = FontNameOf(j) =>
             flyweight.characters[i].font = flyweight.characters[j].font
    /\ Len(flyweight.fonts) =
          Cardinality({FontNameOf(i) : i \in DOMAIN flyweight.characters})
\* C15: every Logger() call returns the same object: at most one Logger
\* object is ever created, and Logger._instance, once set, stays the first
\* object created.
C15_OneLogger ==
    /\ logger.created <= 1
    /\ \A i \in DOMAIN logger.refs : logger.refs[i] = logger.refs[1]
    /\ logger.refs # <<>> => logger.cls.instance = <<1>>
    /\ logger.refs = <<>> => logger.cls.instance = <<>>

C15_Witness ==
    /\ Len(logger.refs) = 3
    /\ logger.created = 1
    /\ logger.refs[3] = logger.refs[1]
\* C16 (as the client code's comment says): set_content saves the editor
\* state by itself: after set_content(c) the history's latest memento holds
\* c, ready for a later undo.
C16_SetContentSaves ==
    memento.op = "set_content" =>
        /\ memento.history.mementos # <<>>
        /\ memento.history.mementos[Len(memento.history.mementos)].content =
              memento.editor.content

NewestPending == CHOOSE n \in memento.pending : \A k \in memento.pending : k <= n

\* C17: undo returns and removes the most recently saved memento not yet
\* returned (last in, first out); on an empty history it returns None and
\* the history stays empty.
C17_UndoIsLifo ==
    [][memento'.op = "undo" =>
         IF memento.pending = {}
         THEN /\ memento'.ret = <<>>
              /\ memento.history.mementos = <<>>
              /\ memento'.history.mementos = <<>>
         ELSE /\ Len(memento'.ret) = 1
              /\ memento'.ret[1].id = NewestPending
              /\ {memento'.history.mementos[k].id :
                     k \in DOMAIN memento'.history.mementos} =
                 memento.pending \ {NewestPending}
              /\ Len(memento'.history.mementos) =
                 Cardinality(memento.pending) - 1]_vars

C17_Witness ==
    /\ memento.op = "undo"
    /\ memento.ret = <<[id |-> 3, content |-> "New text added."]>>
    /\ Len(memento.history.mementos) = 1
    /\ memento.history.mementos[1].id = 1
\* C18 (as documented): undo reverses the effects of commands: after a run
\* of execute calls (a command object may be executed more than once)
\* followed by as many undo calls, the editor's content is the content
\* before the first execute of the run.
C18_UndoReverses ==
    (command.run.execs > 0 /\ command.run.undos = command.run.execs) =>
        command.st.editor.content = command.run.start
\* C19: set_temperature(t) stores t and then notifies every registered
\* observer, in registration order and once per registration, with t.
C19_NotifiesAllWithNewValue ==
    observer.op.name = "set_temperature" =>
        /\ observer.station.temperature = observer.op.arg
        /\ Len(observer.out) = Len(observer.station.observers)
        /\ \A k \in DOMAIN observer.out :
              /\ observer.out[k].observer = observer.station.observers[k]
              /\ observer.out[k].line =
                    <<observer.station.observers[k],
                      " Display: Temperature is now ", observer.op.arg, "°C">>

C19_Witness ==
    /\ observer.op.name = "set_temperature"
    /\ observer.op.arg = 30
    /\ observer.station.observers = <<"Display 1", "Display 2", "Display 1">>
    /\ Len(observer.out) = 3

\* C20 (as documented): after remove_observer(o) the observer o gets no
\* update from a set_temperature call until it is added again.
C20_RemovedGetsNoUpdate ==
    \A k \in DOMAIN observer.out :
        observer.out[k].observer \notin observer.removed
\* C21: on a NumberList not modified during the traversal, the loop
\* "while has_next(): next()" returns every element exactly once, in
\* insertion order, and ends exactly when all were returned; on an empty
\* list it ends at once.
C21_TraversalInOrder ==
    (iterator.it # <<>> /\ ~iterator.modified) =>
        /\ Len(iterator.returned) <= Len(iterator.list.numbers)
        /\ \A k \in DOMAIN iterator.returned :
              iterator.returned[k] = iterator.list.numbers[k]
        /\ iterator.finished => iterator.returned = iterator.list.numbers
        /\ ListIterator_has_next(iterator.it[1], iterator.list.numbers) <=>
              Len(iterator.returned) < Len(iterator.list.numbers)

C21_Witness ==
    /\ iterator.finished
    /\ ~iterator.modified
    /\ iterator.list.numbers = <<2, 1, 2>>
    /\ iterator.returned = <<2, 1, 2>>
\* Positions of the walk from h whose handler approves the amount itself
Approving(h, amount) ==
    {k \in DOMAIN Walk(h) :
        \/ Walk(h)[k] = "President"
        \/ Walk(h)[k] \in Bounded /\ amount <= Limit(Walk(h)[k])}

TitleOf(h) == IF h = "VicePresident" THEN "Vice President" ELSE h

\* C22: whatever the entry handler and the order of the handlers, the
\* request is decided by the first handler on the successor walk from the
\* entry handler that is the President or whose threshold is not below the
\* amount (rejected by the last one when there is none); exactly the
\* handlers of the walk up to that one are invoked, each once and each
\* with the unchanged amount.
C22_FirstApproverOnWalk ==
    (Requested /\ Terminating(last.head, last.amount)) =>
        LET walk == Walk(last.head)
            decider ==
              IF Approving(last.head, last.amount) # {}
              THEN CHOOSE k \in Approving(last.head, last.amount) :
                      \A j \in Approving(last.head, last.amount) : k <= j
              ELSE Len(walk)
        IN  /\ ~last.raised
            /\ last.calls = [k \in 1..decider |-> <<walk[k], last.amount>>]
            /\ last.by = <<walk[decider]>>
            /\ IF Approving(last.head, last.amount) # {}
               THEN last.out = <<ApprovalLine(TitleOf(walk[decider]),
                                              last.amount)>>
               ELSE last.out = <<RejectLine>>

C22_Witness ==
    /\ Requested
    /\ last.head = "Director"
    /\ next_approver["VicePresident"] = "Director"
    /\ next_approver["Director"] = "Manager"
    /\ next_approver["Manager"] = "President"
    /\ last.amount = 9000
    /\ last.calls = <<<<"Director", 9000>>, <<"Manager", 9000>>,
                      <<"President", 9000>>>>
    /\ last.by = <<"President">>
====
